---- MODULE Spec2Model ----
(***************************************************************************)
(* Model of my_gemini.client.GeminiClient: the prompt builder, the         *)
(* materialisation of base64 images as temp files, the external process    *)
(* call with its timeout, and the cleanup in generate's finally block.     *)
(*                                                                         *)
(* Text is a sequence of one-character strings, bytes are a sequence of    *)
(* integers 0..255, so that formatting, decoding and stripping are         *)
(* computed rather than assumed.                                           *)
(***************************************************************************)
EXTENDS Integers, Sequences, FiniteSets, TLC

(***************************************************************************)
(* Bounds of the model.                                                    *)
(***************************************************************************)
\* how many values uuid.uuid4() can return in the model
NumUuids == 3

\* longest list of content parts of a message built by BuildAny
MaxParts == 2

(***************************************************************************)
(* Text helpers (Python str operations used by the client).                *)
(***************************************************************************)
Range(s) == {s[i] : i \in DOMAIN s}

Take(s, n) == SubSeq(s, 1, IF n < Len(s) THEN n ELSE Len(s))

Drop(s, n) == SubSeq(s, n + 1, Len(s))

\* str.startswith
StartsWith(s, p) == Len(p) <= Len(s) /\ SubSeq(s, 1, Len(p)) = p

\* the `in` operator on two str values
Contains(s, sub) ==
    \E i \in 0..(Len(s) - Len(sub)) : SubSeq(s, i + 1, i + Len(sub)) = sub

\* position of the first occurrence of character ch in s, 0 when there is none
IndexOf(s, ch) ==
    IF \E i \in DOMAIN s : s[i] = ch
    THEN CHOOSE i \in DOMAIN s : s[i] = ch /\ \A j \in 1..(i - 1) : s[j] # ch
    ELSE 0

\* characters str.strip() removes
Whitespace == {" ", "\t", "\n", "\r", "\f"}

RECURSIVE LStrip(_)
LStrip(s) == IF s # <<>> /\ Head(s) \in Whitespace THEN LStrip(Tail(s)) ELSE s

RECURSIVE RStrip(_)
RStrip(s) ==
    IF s # <<>> /\ s[Len(s)] \in Whitespace
    THEN RStrip(SubSeq(s, 1, Len(s) - 1))
    ELSE s

\* str.strip()
Strip(s) == RStrip(LStrip(s))

\* str.join over a list of str
RECURSIVE Join(_, _)
Join(sep, parts) ==
    IF parts = <<>> THEN <<>>
    ELSE IF Len(parts) = 1 THEN parts[1]
    ELSE parts[1] \o sep \o Join(sep, Tail(parts))

Digit == <<"0", "1", "2", "3", "4", "5", "6", "7", "8", "9">>

RECURSIVE NatToStr(_)
NatToStr(n) ==
    IF n < 10 THEN <<Digit[n + 1]>>
    ELSE NatToStr(n \div 10) \o <<Digit[(n % 10) + 1]>>

\* formatting of an int inside an f-string
IntToStr(n) == IF n < 0 THEN <<"-">> \o NatToStr(0 - n) ELSE NatToStr(n)

(***************************************************************************)
(* bytes.decode(): UTF-8, errors="strict".  The model's bytes are ASCII    *)
(* bytes and bytes that can occur in no UTF-8 text.                         *)
(***************************************************************************)
Chr(b) ==
    CASE b = 9 -> "\t"
      [] b = 10 -> "\n"
      [] b = 32 -> " "
      [] b = 97 -> "a"
      [] b = 98 -> "b"
      [] b = 109 -> "m"
      [] b = 111 -> "o"
      [] OTHER -> "?"

\* bytes no UTF-8 encoding contains
NeverUtf8 == {192, 193} \cup (245..255)

\* [ok |-> FALSE] stands for UnicodeDecodeError
Decode(bs) ==
    IF \E i \in DOMAIN bs : bs[i] \in NeverUtf8
    THEN [ok |-> FALSE, text |-> <<>>]
    ELSE [ok |-> TRUE, text |-> [i \in DOMAIN bs |-> Chr(bs[i])]]

(***************************************************************************)
(* base64.b64decode(data) with validate=False: characters outside the      *)
(* alphabet are discarded, and the padding must complete the last quad.    *)
(***************************************************************************)
B64Alphabet ==
    <<"A", "B", "C", "D", "E", "F", "G", "H", "I", "J", "K", "L", "M",
      "N", "O", "P", "Q", "R", "S", "T", "U", "V", "W", "X", "Y", "Z",
      "a", "b", "c", "d", "e", "f", "g", "h", "i", "j", "k", "l", "m",
      "n", "o", "p", "q", "r", "s", "t", "u", "v", "w", "x", "y", "z",
      "0", "1", "2", "3", "4", "5", "6", "7", "8", "9", "+", "/">>

B64Val(ch) == (CHOOSE i \in DOMAIN B64Alphabet : B64Alphabet[i] = ch) - 1

B64Chars(s) == SelectSeq(s, LAMBDA ch : ch \in Range(B64Alphabet) \cup {"="})

\* the bytes of one quad: v1..v4 are the 6-bit values, pad the number of "="
B64Bytes(v1, v2, v3, v4, pad) ==
    IF pad = 2 THEN <<v1 * 4 + v2 \div 16>>
    ELSE IF pad = 1
    THEN <<v1 * 4 + v2 \div 16, (v2 % 16) * 16 + v3 \div 4>>
    ELSE <<v1 * 4 + v2 \div 16, (v2 % 16) * 16 + v3 \div 4, (v3 % 4) * 64 + v4>>

B64Quad(q) ==
    B64Bytes(B64Val(q[1]), B64Val(q[2]),
             IF q[3] = "=" THEN 0 ELSE B64Val(q[3]),
             IF q[4] = "=" THEN 0 ELSE B64Val(q[4]),
             IF q[3] = "=" THEN 2 ELSE IF q[4] = "=" THEN 1 ELSE 0)

RECURSIVE B64Quads(_)
B64Quads(s) ==
    IF s = <<>> THEN <<>> ELSE B64Quad(Take(s, 4)) \o B64Quads(Drop(s, 4))

\* [ok |-> FALSE] stands for binascii.Error
B64Padding(s) == Len(s) - Len(SelectSeq(s, LAMBDA ch : ch # "="))

B64Decoded(s, pad) ==
    IF /\ Len(s) % 4 = 0
       /\ pad <= 2
       /\ \A i \in 1..Len(s) : s[i] = "=" => i > Len(s) - pad
    THEN [ok |-> TRUE, bytes |-> B64Quads(s)]
    ELSE [ok |-> FALSE, bytes |-> <<>>]

B64Filtered(s) == B64Decoded(s, B64Padding(s))

b64decode(data) == B64Filtered(B64Chars(data))

(***************************************************************************)
(* String literals of the client and of the requests of the model.         *)
(***************************************************************************)
TmpDirPrefix == <<".", "g", "e", "m", "i", "n", "i", "_", "t", "m", "p", "/">>
ExtPng == <<".", "p", "n", "g">>
ExtJpg == <<".", "j", "p", "g">>
Png == <<"p", "n", "g">>
DataScheme == <<"d", "a", "t", "a", ":">>
ImageOpen == <<" ", "<", "i", "m", "a", "g", "e", ">">>
ImageClose == <<"<", "/", "i", "m", "a", "g", "e", ">">>
FailedOpen ==
    <<"G", "e", "m", "i", "n", "i", " ", "C", "L", "I", " ",
      "f", "a", "i", "l", "e", "d", " ", "(">>
FailedClose == <<")", ":", " ">>
DefaultCmd == <<"g", "e", "m", "i", "n", "i">>
FlagM == <<"-", "m">>
FlagP == <<"-", "p">>
DefaultModel ==
    <<"g", "e", "m", "i", "n", "i", "-", "2", ".", "5", "-", "p", "r", "o">>
ModelFlash == <<"f", "l", "a", "s", "h">>
RoleUser == <<"u", "s", "e", "r">>
RoleSystem == <<"s", "y", "s", "t", "e", "m">>
RoleAssistant == <<"a", "s", "s", "i", "s", "t", "a", "n", "t">>
UrlPng ==
    <<"d", "a", "t", "a", ":", "i", "m", "a", "g", "e", "/", "p", "n", "g", ";",
      "b", "a", "s", "e", "6", "4", ",", "Q", "Q", "=", "=">>
UrlJpg ==
    <<"d", "a", "t", "a", ":", "i", "m", "a", "g", "e", "/", "j", "p", "e", "g", ";",
      "b", "a", "s", "e", "6", "4", ",", "Q", "U", "I", "=">>
UrlNoComma ==
    <<"d", "a", "t", "a", ":", "i", "m", "a", "g", "e", "/", "p", "n", "g", ";",
      "b", "a", "s", "e", "6", "4">>
UrlBadB64 ==
    <<"d", "a", "t", "a", ":", "i", "m", "a", "g", "e", "/", "p", "n", "g", ";",
      "b", "a", "s", "e", "6", "4", ",", "Q", "Q">>
UrlExternal == <<"h", "t", "t", "p", ":", "/", "/", "x", "/", "i", ".", "p", "n", "g">>
Hi == <<"H", "i">>
See == <<"s", "e", "e">>

(***************************************************************************)
(* models.py: ChatContentPart and ChatMessage.                              *)
(***************************************************************************)
\* text is Optional: hasText = FALSE is None.  url is image_url["url"].
ChatContentPart(type, hasText, text, url) ==
    [type |-> type, hasText |-> hasText, text |-> text, url |-> url]

TextPart(text) == ChatContentPart("text", TRUE, text, <<>>)
NoTextPart == ChatContentPart("text", FALSE, <<>>, <<>>)
ImagePart(url) == ChatContentPart("image_url", FALSE, <<>>, url)

\* content is Union[str, List[ChatContentPart]]: isStr tells which
ChatMessage(role, isStr, str, parts) ==
    [role |-> role, isStr |-> isStr, str |-> str, parts |-> parts]

StrMessage(role, str) == ChatMessage(role, TRUE, str, <<>>)
PartsMessage(role, parts) == ChatMessage(role, FALSE, <<>>, parts)

(***************************************************************************)
(* uuid.uuid4().hex: 32 hexadecimal digits.  The model's uuids 0, 1, 2, .. *)
(* are pairwise different; uuids 2k and 2k+1 differ only in their last     *)
(* digit.                                                                   *)
(***************************************************************************)
HexDigit ==
    <<"0", "1", "2", "3", "4", "5", "6", "7", "8", "9", "a", "b", "c", "d", "e", "f">>

Uuids == 0..(NumUuids - 1)

uuid4_hex(u) ==
    [i \in 1..32 |->
        IF i = 8 THEN HexDigit[((u \div 2) % 16) + 1]
        ELSE IF i = 13 THEN "4"
        ELSE IF i = 32 THEN HexDigit[(u % 2) + 1]
        ELSE "0"]

(***************************************************************************)
(* The filesystem: the files of .gemini_tmp as a function from path to     *)
(* contents, and whether the directory exists.                             *)
(***************************************************************************)
NoFiles == [p \in {} |-> <<>>]

Exists(files, path) == path \in DOMAIN files

WriteFile(files, path, bytes) ==
    [p \in DOMAIN files \cup {path} |-> IF p = path THEN bytes ELSE files[p]]

Unlink(files, path) == [p \in DOMAIN files \ {path} |-> files[p]]

(***************************************************************************)
(* GeminiClient._save_b64(data_url).  u is the uuid4 drawn, oserror tells  *)
(* whether makedirs/open raises OSError in this call (exc "OSError:open"; *)
(* the OSError of os.unlink is "OSError:unlink").  The result tells the    *)
(* exception raised (if any), the path returned, the file created and the  *)
(* filesystem left behind.                                                  *)
(***************************************************************************)
HexLen == 8

FileName(u, ext) == TmpDirPrefix \o Take(uuid4_hex(u), HexLen) \o ext

\* lines 85-88: makedirs, open(fname, "wb") and the write of the decoded bytes
SaveFile(files, dir, fname, decoded, oserror) ==
    IF oserror
    THEN [ok |-> FALSE, exc |-> "OSError:open", path |-> <<>>,
          created |-> <<>>, files |-> files, dir |-> dir]
    ELSE IF ~decoded.ok
    THEN [ok |-> FALSE, exc |-> "binascii.Error", path |-> <<>>,
          created |-> <<fname>>, files |-> WriteFile(files, fname, <<>>),
          dir |-> TRUE]
    ELSE [ok |-> TRUE, exc |-> "", path |-> fname,
          created |-> <<fname>>,
          files |-> WriteFile(files, fname, decoded.bytes), dir |-> TRUE]

\* lines 83-88, with header and data the two halves of the split
SaveSplit(header, data, files, dir, u, oserror) ==
    SaveFile(files, dir,
             FileName(u, IF Contains(header, Png) THEN ExtPng ELSE ExtJpg),
             b64decode(data), oserror)

\* line 82: comma is the place of the first comma, 0 when there is none
SaveAt(data_url, comma, files, dir, u, oserror) ==
    IF comma = 0
    THEN [ok |-> FALSE, exc |-> "ValueError", path |-> <<>>,
          created |-> <<>>, files |-> files, dir |-> dir]
    ELSE SaveSplit(SubSeq(data_url, 1, comma - 1), Drop(data_url, comma),
                   files, dir, u, oserror)

save_b64(data_url, files, dir, u, oserror) ==
    SaveAt(data_url, IndexOf(data_url, ","), files, dir, u, oserror)

(***************************************************************************)
(* GeminiClient._build_prompt(messages).  draws[k] is the uuid4 drawn by   *)
(* the k-th call of _save_b64, failSave the call of _save_b64 in which     *)
(* makedirs/open raises OSError (0: none).  The loop state st carries the  *)
(* locals parts, txt, tmp_files, the files created so far, the filesystem  *)
(* and n, the number of _save_b64 calls made.                              *)
(***************************************************************************)
\* FormatLine with the space after the colon forgotten (faulty variant)
FormatLineNoSpace(role, text) == role \o <<":">> \o text
FormatLine(role, text) == role \o <<":", " ">> \o text

FormatFileRef(path) == <<" ", "@">> \o path

FormatImage(url) == ImageOpen \o url \o ImageClose

IsDataPart(seg) == seg.type = "image_url" /\ StartsWith(seg.url, DataScheme)

\* lines 64-66, with r what _save_b64 did
AfterSave(st, r) ==
    IF r.ok
    THEN [st EXCEPT !.n = @ + 1,
                    !.files = r.files,
                    !.dir = r.dir,
                    !.created = @ \o r.created,
                    !.tmp_files = Append(@, r.path),
                    !.txt = @ \o FormatFileRef(r.path)]
    ELSE [st EXCEPT !.n = @ + 1,
                    !.files = r.files,
                    !.dir = r.dir,
                    !.created = @ \o r.created,
                    !.ok = FALSE,
                    !.exc = r.exc]

BuildSeg(seg, st, draws, failSave) ==
    IF seg.type = "text"
    THEN [st EXCEPT !.txt = @ \o (IF seg.hasText THEN seg.text ELSE <<>>)]
    ELSE IF seg.type = "image_url"
    THEN IF StartsWith(seg.url, DataScheme)
         THEN AfterSave(st, save_b64(seg.url, st.files, st.dir,
                                     draws[st.n + 1], failSave = st.n + 1))
         ELSE [st EXCEPT !.txt = @ \o FormatImage(seg.url)]
    ELSE st

RECURSIVE BuildSegs(_, _, _, _)
BuildSegs(segs, st, draws, failSave) ==
    IF segs = <<>> \/ ~st.ok THEN st
    ELSE BuildSegs(Tail(segs), BuildSeg(Head(segs), st, draws, failSave),
                   draws, failSave)

\* line 69, with s the loop state after the parts of message m
AfterSegs(m, s) ==
    IF s.ok THEN [s EXCEPT !.parts = Append(@, FormatLine(m.role, s.txt))] ELSE s

BuildMsg(m, st, draws, failSave) ==
    IF m.isStr
    THEN [st EXCEPT !.parts = Append(@, FormatLine(m.role, m.str))]
    ELSE AfterSegs(m, BuildSegs(m.parts, [st EXCEPT !.txt = <<>>], draws, failSave))

RECURSIVE BuildMsgs(_, _, _, _)
BuildMsgs(msgs, st, draws, failSave) ==
    IF msgs = <<>> \/ ~st.ok THEN st
    ELSE BuildMsgs(Tail(msgs), BuildMsg(Head(msgs), st, draws, failSave),
                   draws, failSave)

\* line 70, or the exception that ended the loops
BuildReturn(st) ==
    [ok |-> st.ok, exc |-> st.exc,
     prompt |-> IF st.ok THEN Join(<<"\n">>, st.parts) ELSE <<>>,
     tmp_files |-> IF st.ok THEN st.tmp_files ELSE <<>>,
     created |-> st.created, files |-> st.files, dir |-> st.dir]

build_prompt(msgs, fs, d, draws, failSave) ==
    BuildReturn(BuildMsgs(msgs,
                          [ok |-> TRUE, exc |-> "", parts |-> <<>>, txt |-> <<>>,
                           tmp_files |-> <<>>, created |-> <<>>,
                           files |-> fs, dir |-> d, n |-> 0],
                          draws, failSave))

(***************************************************************************)
(* GeminiClient._call_gemini(prompt, model).                                *)
(***************************************************************************)
Value(text) == [kind |-> "value", exc |-> "", text |-> text]
Error(exc, text) == [kind |-> "error", exc |-> exc, text |-> text]
NoOutcome == [kind |-> "none", exc |-> "", text |-> <<>>]

\* the argument list of create_subprocess_exec
\* (ArgsSwapped: the faulty variant with the two flags exchanged)
ArgsSwapped(command, mdl, prmpt) == <<command, FlagP, prmpt, FlagM, mdl>>
Args(command, mdl, prmpt) == <<command, FlagM, mdl, FlagP, prmpt>>

NoProc == [state |-> "none", returncode |-> 0, stdout |-> <<>>, stderr |-> <<>>]

Running == [state |-> "running", returncode |-> 0, stdout |-> <<>>, stderr |-> <<>>]

Exited(res) ==
    [state |-> "exited", returncode |-> res.returncode,
     stdout |-> res.stdout, stderr |-> res.stderr]

\* what _call_gemini returns or raises once communicate() has returned
\* line 117: the RuntimeError, or the UnicodeDecodeError of stderr.decode()
RaiseFailed(returncode, err) ==
    IF err.ok
    THEN Error("RuntimeError",
               FailedOpen \o IntToStr(returncode) \o FailedClose \o Strip(err.text))
    ELSE Error("UnicodeDecodeError", <<>>)

\* line 118: the value returned, or the UnicodeDecodeError of stdout.decode()
ReturnStdout(out) ==
    IF out.ok THEN Value(Strip(out.text)) ELSE Error("UnicodeDecodeError", <<>>)

\* call_result without the returncode test (faulty variant)
call_result_unchecked(returncode, stdout, stderr) == ReturnStdout(Decode(stdout))
call_result(returncode, stdout, stderr) ==
    IF returncode # 0
    THEN RaiseFailed(returncode, Decode(stderr))
    ELSE ReturnStdout(Decode(stdout))

\* the process after asyncio.wait_for has raised TimeoutError: wait_for
\* cancels the communicate() coroutine, nothing signals the process
\* (wait_for_timeout_kill: the variant that would kill it)
wait_for_timeout_kill(p) == [p EXCEPT !.state = "exited", !.returncode = -9]
wait_for_timeout(p) == p

(***************************************************************************)
(* The finally block of generate: for f in tmp_files: if exists: unlink.   *)
(* failAt is the position in tmp_files at which os.unlink raises OSError   *)
(* (0: nowhere); the exception leaves the loop.                            *)
(***************************************************************************)
RECURSIVE CleanupFrom(_, _, _, _)
CleanupFrom(tmp, i, fs, failAt) ==
    IF i > Len(tmp)
    THEN [raised |-> FALSE, path |-> <<>>, files |-> fs]
    ELSE IF Exists(fs, tmp[i])
    THEN IF i = failAt
         THEN [raised |-> TRUE, path |-> tmp[i], files |-> fs]
         ELSE CleanupFrom(tmp, i + 1, Unlink(fs, tmp[i]), failAt)
    ELSE CleanupFrom(tmp, i + 1, fs, failAt)

cleanup(tmp, fs, failAt) == CleanupFrom(tmp, 1, fs, failAt)

\* what the caller of generate gets: an exception raised in the finally
\* block replaces the result or exception of the try block
generate_outcome(result, cl) ==
    IF cl.raised THEN Error("OSError:unlink", cl.path) ELSE result

(***************************************************************************)
(* Inputs of the model: the requests passed to generate, and the ways the  *)
(* external process can end.                                                *)
(***************************************************************************)
Request(msgs, mdl) == [messages |-> msgs, model |-> mdl]

Requests ==
    { Request(<<StrMessage(RoleUser, Hi)>>, DefaultModel),
      Request(<<StrMessage(RoleSystem, Hi),
                PartsMessage(RoleUser, <<TextPart(See), ImagePart(UrlExternal)>>)>>,
              ModelFlash),
      Request(<<PartsMessage(RoleAssistant,
                             <<ImagePart(UrlPng), NoTextPart, ImagePart(UrlJpg)>>)>>,
              DefaultModel),
      Request(<<PartsMessage(RoleUser,
                             <<ImagePart(UrlPng), ImagePart(UrlNoComma)>>)>>,
              DefaultModel),
      Request(<<PartsMessage(RoleUser, <<TextPart(Hi), ImagePart(UrlBadB64)>>)>>,
              DefaultModel) }

\* number of image_url parts with a data: URI, i.e. of _save_b64 calls at most
NData(msgs) ==
    LET count(m) == IF m.isStr THEN 0
                    ELSE Len(SelectSeq(m.parts, IsDataPart))
        sum[i \in 0..Len(msgs)] == IF i = 0 THEN 0 ELSE sum[i - 1] + count(msgs[i])
    IN  sum[Len(msgs)]

ProcResult(code, out, err) == [returncode |-> code, stdout |-> out, stderr |-> err]

ProcResults ==
    { ProcResult(0, <<32, 97, 10>>, <<>>),
      ProcResult(0, <<255>>, <<>>),
      ProcResult(2, <<97>>, <<98, 111, 111, 109, 10>>),
      ProcResult(2, <<>>, <<255>>),
      ProcResult(-9, <<>>, <<>>) }

Calls == {"call1", "call2"}

(***************************************************************************)
(* State.                                                                   *)
(***************************************************************************)
VARIABLES
    cmd,        \* self.cmd
    disk,       \* the files under .gemini_tmp: path -> contents
    tmpdir,     \* whether .gemini_tmp exists
    pc,         \* where each generate call is: idle, spawning, waiting, done
    messages,   \* the arguments of each call
    model,
    prompt,     \* the locals of generate
    tmp_files,
    created,    \* the files each call's _save_b64 opened, in order
    spawned,    \* the argument lists of the processes each call spawned
    proc,       \* the external process of each call
    waited,     \* how wait_for ended: none, completed, timeout
    outcome     \* what the caller of generate got

vars == <<cmd, disk, tmpdir, pc, messages, model, prompt, tmp_files, created,
          spawned, proc, waited, outcome>>

Init ==
    /\ cmd = DefaultCmd
    /\ disk = NoFiles
    /\ tmpdir = FALSE
    /\ pc = [c \in Calls |-> "idle"]
    /\ messages = [c \in Calls |-> <<>>]
    /\ model = [c \in Calls |-> <<>>]
    /\ prompt = [c \in Calls |-> <<>>]
    /\ tmp_files = [c \in Calls |-> <<>>]
    /\ created = [c \in Calls |-> <<>>]
    /\ spawned = [c \in Calls |-> <<>>]
    /\ proc = [c \in Calls |-> NoProc]
    /\ waited = [c \in Calls |-> "none"]
    /\ outcome = [c \in Calls |-> NoOutcome]

(***************************************************************************)
(* generate, up to its first suspension: _build_prompt runs to its end     *)
(* (no await in it); when it raises, generate raises before its try block  *)
(* is entered, otherwise _call_gemini starts create_subprocess_exec.        *)
(***************************************************************************)
\* line 32 and what follows it, with b what _build_prompt did
Built(c, req, b) ==
    /\ messages' = [messages EXCEPT ![c] = req.messages]
    /\ model' = [model EXCEPT ![c] = req.model]
    /\ disk' = b.files
    /\ tmpdir' = b.dir
    /\ created' = [created EXCEPT ![c] = b.created]
    /\ prompt' = [prompt EXCEPT ![c] = b.prompt]
    /\ tmp_files' = [tmp_files EXCEPT ![c] = b.tmp_files]
    /\ IF b.ok
       THEN /\ pc' = [pc EXCEPT ![c] = "spawning"]
            /\ UNCHANGED outcome
       ELSE /\ pc' = [pc EXCEPT ![c] = "done"]
            /\ outcome' = [outcome EXCEPT ![c] = Error(b.exc, <<>>)]

GenerateCall(c) ==
    /\ pc[c] = "idle"
    /\ \E req \in Requests :
       \E draws \in [1..NData(req.messages) -> Uuids] :
       \E failSave \in 0..NData(req.messages) :
          Built(c, req, build_prompt(req.messages, disk, tmpdir, draws, failSave))
    /\ UNCHANGED <<cmd, spawned, proc, waited>>

\* the try/finally of generate ends with `result` from the try block
Cleaned(c, result, cl) ==
    /\ disk' = cl.files
    /\ outcome' = [outcome EXCEPT ![c] = generate_outcome(result, cl)]
    /\ pc' = [pc EXCEPT ![c] = "done"]

Finally(c, result) ==
    \E failAt \in 0..Len(tmp_files[c]) :
        Cleaned(c, result, cleanup(tmp_files[c], disk, failAt))

\* create_subprocess_exec returns the process, or raises (no such command)
SpawnProcess(c) ==
    /\ pc[c] = "spawning"
    /\ spawned' = [spawned EXCEPT ![c] = Append(@, Args(cmd, model[c], prompt[c]))]
    /\ proc' = [proc EXCEPT ![c] = Running]
    /\ pc' = [pc EXCEPT ![c] = "waiting"]
    /\ UNCHANGED <<cmd, disk, tmpdir, messages, model, prompt, tmp_files,
                   created, waited, outcome>>

SpawnFails(c) ==
    /\ pc[c] = "spawning"
    /\ Finally(c, Error("FileNotFoundError", <<>>))
    /\ UNCHANGED <<cmd, tmpdir, messages, model, prompt, tmp_files, created,
                   spawned, proc, waited>>

\* the external process ends by itself, whether or not anyone still waits
ProcessExits(c) ==
    /\ proc[c].state = "running"
    /\ \E res \in ProcResults : proc' = [proc EXCEPT ![c] = Exited(res)]
    /\ UNCHANGED <<cmd, disk, tmpdir, pc, messages, model, prompt, tmp_files,
                   created, spawned, waited, outcome>>

\* wait_for(proc.communicate()) returns within the timeout
CommunicateReturns(c) ==
    /\ pc[c] = "waiting"
    /\ proc[c].state = "exited"
    /\ waited' = [waited EXCEPT ![c] = "completed"]
    /\ Finally(c, call_result(proc[c].returncode, proc[c].stdout, proc[c].stderr))
    /\ UNCHANGED <<cmd, tmpdir, messages, model, prompt, tmp_files, created,
                   spawned, proc>>

\* the timeout elapses before the process has ended (a process that has
\* ended is taken to be seen by communicate() first)
WaitTimesOut(c) ==
    /\ pc[c] = "waiting"
    /\ proc[c].state = "running"
    /\ waited' = [waited EXCEPT ![c] = "timeout"]
    /\ proc' = [proc EXCEPT ![c] = wait_for_timeout(@)]
    /\ Finally(c, Error("TimeoutError", <<>>))
    /\ UNCHANGED <<cmd, tmpdir, messages, model, prompt, tmp_files, created,
                   spawned>>

(***************************************************************************)
(* The prompt builder on its own: one call of generate with any request    *)
(* made of one message, or of one message before or after a message with   *)
(* string content, the parts of a message being any list of at most        *)
(* MaxParts parts.                                                          *)
(***************************************************************************)
PartAlphabet ==
    {TextPart(See), NoTextPart, ImagePart(UrlExternal), ImagePart(UrlPng),
     ImagePart(UrlJpg)}

PartLists == UNION {[1..n -> PartAlphabet] : n \in 0..MaxParts}

Roles == {RoleSystem, RoleUser, RoleAssistant}

StrMessages == {StrMessage(r, Hi) : r \in Roles}

AnyMessages == StrMessages \cup {PartsMessage(r, ps) : r \in Roles, ps \in PartLists}

AnyRequests ==
    {Request(<<>>, DefaultModel)}
        \cup {Request(<<m>>, DefaultModel) : m \in AnyMessages}
        \cup {Request(<<sm, m>>, ModelFlash) : sm \in StrMessages, m \in AnyMessages}
        \cup {Request(<<m, sm>>, ModelFlash) : sm \in StrMessages, m \in AnyMessages}

BuildAny(c) ==
    /\ pc[c] = "idle"
    /\ \A d \in Calls : pc[d] = "idle"
    /\ \E req \in AnyRequests :
       \E draws \in [1..NData(req.messages) -> Uuids] :
       \E failSave \in 0..NData(req.messages) :
          Built(c, req, build_prompt(req.messages, disk, tmpdir, draws, failSave))
    /\ UNCHANGED <<cmd, spawned, proc, waited>>

NextBuild == \E c \in Calls : BuildAny(c)

SpecBuild == Init /\ [][NextBuild]_vars

Next ==
    \E c \in Calls :
        \/ GenerateCall(c)
        \/ SpawnProcess(c)
        \/ SpawnFails(c)
        \/ ProcessExits(c)
        \/ CommunicateReturns(c)
        \/ WaitTimesOut(c)

Spec == Init /\ [][Next]_vars

(***************************************************************************)
(* Properties.                                                              *)
(***************************************************************************)
InFlight(c) == pc[c] \in {"spawning", "waiting"}

BuildFailed(c) ==
    pc[c] = "done" /\ outcome[c].exc \in {"ValueError", "binascii.Error", "OSError:open"}

\* C1: whenever a generate call completes, by a result or by any exception,
\* none of the temp files created during the call exists any more.
C1_CreatedFilesGoneAtCompletion ==
    [][\A c \in Calls :
        (pc[c] # "done" /\ pc'[c] = "done")
            => \A i \in DOMAIN created'[c] : ~Exists(disk', created'[c][i])]_vars

\* C2: when the timeout elapses with the process still running, generate
\* fails with the timeout error and all temp files of the call are removed
\* when the error reaches the caller.
C2_TimeoutErrorAndFilesRemoved ==
    [][\A c \in Calls :
        (waited[c] = "none" /\ waited'[c] = "timeout")
            => /\ pc'[c] = "done"
               /\ outcome'[c].kind = "error"
               /\ outcome'[c].exc = "TimeoutError"
               /\ \A i \in DOMAIN tmp_files[c] : ~Exists(disk', tmp_files[c][i])]_vars

\* C3: when the process completed within the timeout with a non-zero exit
\* code, generate fails with the execution error whose message contains the
\* exit code and the decoded, stripped standard error; it returns no value.
C3_NonZeroExitRaisesExecutionError ==
    \A c \in Calls :
        (pc[c] = "done" /\ waited[c] = "completed" /\ proc[c].returncode # 0)
            => /\ outcome[c].kind = "error"
               /\ outcome[c].exc = "RuntimeError"
               /\ Contains(outcome[c].text, IntToStr(proc[c].returncode))
               /\ Decode(proc[c].stderr).ok
                    => Contains(outcome[c].text, Strip(Decode(proc[c].stderr).text))

\* t is s without its leading and trailing whitespace
IsStripOf(t, s) ==
    /\ t # <<>> => t[1] \notin Whitespace /\ t[Len(t)] \notin Whitespace
    /\ \E i \in 0..Len(s) :
          /\ i + Len(t) <= Len(s)
          /\ SubSeq(s, i + 1, i + Len(t)) = t
          /\ \A k \in (1..i) \cup ((i + Len(t) + 1)..Len(s)) : s[k] \in Whitespace

\* C4: generate returns a value only when the process completed within the
\* timeout with exit code zero, the value is then the decoded standard output
\* without leading and trailing whitespace, and every other completed call
\* ended with an error.
C4_ValueOnlyFromZeroExit ==
    \A c \in Calls :
        /\ outcome[c].kind = "value"
            => /\ pc[c] = "done"
               /\ waited[c] = "completed"
               /\ proc[c].state = "exited"
               /\ proc[c].returncode = 0
               /\ Decode(proc[c].stdout).ok
               /\ IsStripOf(outcome[c].text, Decode(proc[c].stdout).text)
        /\ pc[c] = "done" => outcome[c].kind \in {"value", "error"}
        /\ (pc[c] = "done" /\ ~(waited[c] = "completed" /\ proc[c].returncode = 0))
            => outcome[c].kind = "error"

C4_Witness ==
    \E c \in Calls :
        /\ pc[c] = "done"
        /\ outcome[c].kind = "value"
        /\ outcome[c].text # <<>>
        /\ Len(outcome[c].text) < Len(proc[c].stdout)

\* the prompt the claim describes, for messages msgs and temp files tmp
ExpectedPartText(part, path) ==
    IF part.type = "text" THEN (IF part.hasText THEN part.text ELSE <<>>)
    ELSE IF SubSeq(part.url, 1, 5) = <<"d", "a", "t", "a", ":">>
    THEN <<" ", "@">> \o path
    ELSE <<" ", "<", "i", "m", "a", "g", "e", ">">> \o part.url
             \o <<"<", "/", "i", "m", "a", "g", "e", ">">>

\* number of data: image parts among the first j parts of message i and all
\* parts of the messages before it
DataPartsUpTo(msgs, i, j) ==
    Cardinality({ab \in UNION {{<<a, b>> : b \in DOMAIN msgs[a].parts} : a \in 1..i} :
        /\ ab[1] = i => ab[2] <= j
        /\ msgs[ab[1]].parts[ab[2]].type = "image_url"
        /\ SubSeq(msgs[ab[1]].parts[ab[2]].url, 1, 5) = <<"d", "a", "t", "a", ":">>})

ExpectedText(msgs, tmp, i) ==
    IF msgs[i].isStr THEN msgs[i].str
    ELSE LET n == Len(msgs[i].parts)
             k(j) == DataPartsUpTo(msgs, i, j)
             acc[j \in 0..n] ==
                 IF j = 0 THEN <<>>
                 ELSE acc[j - 1] \o ExpectedPartText(msgs[i].parts[j],
                                        IF k(j) \in DOMAIN tmp THEN tmp[k(j)] ELSE <<>>)
         IN  acc[n]

ExpectedPrompt(msgs, tmp) ==
    LET acc[i \in 0..Len(msgs)] ==
            IF i = 0 THEN <<>>
            ELSE acc[i - 1] \o (IF i = 1 THEN <<>> ELSE <<"\n">>)
                     \o msgs[i].role \o <<":", " ">> \o ExpectedText(msgs, tmp, i)
    IN  acc[Len(msgs)]

\* C5: the built prompt is the newline join, in message order, of one line
\* "{role}: {text}" per message, text being the string content or the in-order
\* concatenation of the renderings of the parts.
C5_PromptFormat ==
    \A c \in Calls :
        InFlight(c) => prompt[c] = ExpectedPrompt(messages[c], tmp_files[c])

C5_Witness ==
    \E c \in Calls :
        /\ InFlight(c)
        /\ Len(messages[c]) = 2
        /\ messages[c][1].isStr
        /\ Len(messages[c][2].parts) = 2
        /\ messages[c][2].parts[1].type = "text"
        /\ IsDataPart(messages[c][2].parts[2])
        /\ Len(tmp_files[c]) = 1
        /\ Len(prompt[c]) > Len(tmp_files[c][1])

\* C6: no two calls in flight use the same temp filename, and the temp files
\* of a call in flight are on disk (no other call deleted them).
C6_TempFilesExclusive ==
    /\ \A a \in Calls, b \in Calls :
          (a # b /\ InFlight(a) /\ InFlight(b))
              => Range(tmp_files[a]) \cap Range(tmp_files[b]) = {}
    /\ \A c \in Calls :
          InFlight(c) => \A i \in DOMAIN tmp_files[c] : Exists(disk, tmp_files[c][i])

\* C7: when the finally block of generate ends the call, the caller gets the
\* call's own result or error, not a deletion failure, and of the call's temp
\* files at most the one whose deletion failed is left.
C7_CleanupBestEffort ==
    [][\A c \in Calls :
        (InFlight(c) /\ pc'[c] = "done")
            => /\ outcome'[c].exc # "OSError:unlink"
               /\ Cardinality({f \in Range(tmp_files[c]) : Exists(disk', f)}) <= 1]_vars

\* C8: a call spawns at most one process, with arguments
\* [command, "-m", model, "-p", prompt] of the prompt it built, and none when
\* prompt building failed.
C8_AtMostOneSpawn ==
    \A c \in Calls :
        /\ Len(spawned[c]) <= 1
        /\ pc[c] \in {"idle", "spawning"} => spawned[c] = <<>>
        /\ BuildFailed(c) => spawned[c] = <<>>
        /\ \A i \in DOMAIN spawned[c] :
              spawned[c][i] = <<cmd, <<"-", "m">>, model[c], <<"-", "p">>, prompt[c]>>

C8_Witness ==
    \E a \in Calls, b \in Calls :
        /\ pc[a] = "done"
        /\ outcome[a].exc \in {"TimeoutError", "RuntimeError"}
        /\ Len(spawned[a]) = 1
        /\ BuildFailed(b)

\* C9: a successful prompt building deletes no file, creates one new file per
\* data: image part, and returns exactly the paths of the files it created,
\* in order, each of them in the prompt.
C9_BuildOnlyAdds ==
    [][\A c \in Calls :
        (pc[c] = "idle" /\ pc'[c] = "spawning")
            => /\ DOMAIN disk \subseteq DOMAIN disk'
               /\ Cardinality(DOMAIN disk' \ DOMAIN disk) = NData(messages'[c])
               /\ Len(tmp_files'[c]) = NData(messages'[c])
               /\ Range(tmp_files'[c]) = DOMAIN disk' \ DOMAIN disk
               /\ tmp_files'[c] = created'[c]
               /\ \A i \in DOMAIN tmp_files'[c] :
                     Contains(prompt'[c], tmp_files'[c][i])]_vars

\* C10: no step of a generate call changes a running process: after the
\* timeout error the process the call spawned is still running.
C10_ClientNeverEndsProcess ==
    [][\A c \in Calls :
        (proc[c].state = "running" /\ \E d \in Calls : pc'[d] # pc[d])
            => proc'[c] = proc[c]]_vars

C10_Witness ==
    \E c \in Calls :
        /\ pc[c] = "done"
        /\ outcome[c].exc = "TimeoutError"
        /\ tmp_files[c] # <<>>
        /\ \A i \in DOMAIN tmp_files[c] : ~Exists(disk, tmp_files[c][i])
        /\ proc[c].state = "running"

====
